---- MODULE Spec2Model ----
(***************************************************************************)
(* Nested-transaction coordinator of storage-mysql (transaction.go).       *)
(*                                                                         *)
(* A *transaction (the Handle) wraps a *sql.Tx, the savePoint counter and  *)
(* savePointMtx.  It is reached through a context.Context value stored     *)
(* under the key of the MySQL instance.  Contexts are immutable values;    *)
(* callers may keep and reuse any context they were ever given.            *)
(*                                                                         *)
(* Callers are threads (goroutines).  A call of StartTransaction, Commit   *)
(* or Rollback is a sequence of steps: the context lookup, Lock, the       *)
(* counter update and the driver call, so that interleavings of callers    *)
(* that share one Handle are part of the behaviours.                       *)
(***************************************************************************)
EXTENDS Integers, Sequences, FiniteSets, TLC

\* ------------------------------------------------------------------ bounds
MaxCalls == 4       \* calls made by callers (API calls and DoInTransaction)
MaxTxs == 2         \* database transactions opened (db.Begin, external)
MaxNest == 3        \* DoInTransaction calls nested in one goroutine
MaxFails == 1       \* driver calls the driver fails on a live transaction

Threads == {1, 2}   \* goroutines
Coords == {1, 2}    \* *MySQL instances (coordinators) a program may construct

\* ------------------------------------------------ strconv, transactionKey
ctx_transaction_key == "MYSQL_TRANSACTION"

Digits == <<"0", "1", "2", "3", "4", "5", "6", "7", "8", "9">>

RECURSIVE FormatUint(_)
\* strconv.FormatUint(n, 10)
FormatUint(n) ==
    IF n < 10 THEN Digits[n + 1]
    ELSE FormatUint(n \div 10) \o Digits[(n % 10) + 1]

\* strconv.FormatInt(n, 10)
FormatInt(n) == IF n < 0 THEN "-" \o FormatUint(0 - n) ELSE FormatUint(n)

\* uintptr(unsafe.Pointer(s)): live instances have distinct addresses
Addr(s) == 49152 + 64 * s

\* a key that is the same for every instance
transactionKeyShared(s) == ctx_transaction_key

transactionKey(s) == ctx_transaction_key \o FormatInt(Addr(s))

Keys == {transactionKey(s) : s \in Coords}

\* ------------------------------------------------------- context.Context
\* A context is the function key -> value it answers ctx.Value with; the
\* value is a Handle (an index of handles) or 0, the nil interface.
Background == [k \in Keys |-> 0]
Value(ctx, k) == ctx[k]
WithValue(ctx, k, v) == [ctx EXCEPT ![k] = v]

\* ------------------------------------------------------------------ errors
Nil == "nil"
ErrNoStarted == "No started transaction"
ErrNoTxProvided == "No transaction provided"
ErrAlreadyStarted == "Transaction already started"
ErrTxDone == "sql: transaction has already been committed or rolled back"
ErrFn == "error returned by f"
DriverErr(sql) == "driver: " \o sql

VARIABLES
    mysql,     \* the *MySQL instances constructed
    handles,   \* the *transaction objects: [tx, savePoint, savePointMtx]
    txs,       \* the *sql.Tx objects: [status, log]
    ctxs,      \* the contexts callers hold
    pc,        \* per goroutine: where it is in the call it runs
    cur,       \* per goroutine: receiver, ctx and Handle of that call
    frames,    \* per goroutine: its stack of DoInTransaction calls
    ret,       \* per goroutine: what its last API call returned
    rret,      \* per goroutine: what its last DoInTransaction returned
    ncalls,    \* calls made by callers so far
    nfails     \* driver failures so far

vars == <<mysql, handles, txs, ctxs, pc, cur, frames, ret, rret, ncalls, nfails>>

NoCur == [s |-> 0, ctx |-> Background, h |-> 0, op |-> ""]
NoRet == [op |-> "", s |-> 0, arg |-> Background, err |-> Nil, ctx |-> <<>>,
          tx |-> 0, sql |-> "", n |-> 0, at |-> 0]
NoRRet == [done |-> FALSE, err |-> Nil]

\* The state after construction of the instances in m
Constructed(m) ==
    /\ mysql = m
    /\ handles = <<>>
    /\ txs = <<>>
    /\ ctxs = {Background}
    /\ pc = [t \in Threads |-> "idle"]
    /\ cur = [t \in Threads |-> NoCur]
    /\ frames = [t \in Threads |-> <<>>]
    /\ ret = [t \in Threads |-> NoRet]
    /\ rret = [t \in Threads |-> NoRRet]
    /\ ncalls = 0
    /\ nfails = 0

Init == Constructed({1})

\* ------------------------------------------------------------- the driver
\* One entry of a transaction's log: a call the coordinator made on the
\* *sql.Tx (or the db.Begin that made it), with the API call it came from.
\* h is the Handle the call went through, n the savePoint it named.
Stmt(h, op, kind, n, sql, e) ==
    [h |-> h, op |-> op, kind |-> kind, n |-> n, sql |-> sql, ok |-> (e = Nil)]

\* What tx.Exec(sql), tx.Commit() or tx.Rollback() may return: the driver may
\* fail any call; a *sql.Tx on which tx.Commit() or tx.Rollback() was called
\* is finished whatever that call returned, and fails every later call with
\* sql.ErrTxDone without reaching the server.
DriverResults(x, sql) ==
    IF txs[x].status # "open" THEN {ErrTxDone}
    ELSE IF nfails < MaxFails THEN {Nil, DriverErr(sql)} ELSE {Nil}

\* db.Begin() may fail as well
BeginResults == IF nfails < MaxFails THEN {Nil, DriverErr("BEGIN")} ELSE {Nil}

Failed(e) == IF e \in {Nil, ErrTxDone} THEN nfails ELSE nfails + 1

Logged(x, entry, status) ==
    [txs EXCEPT ![x].status = status, ![x].log = Append(@, entry)]

\* ------------------------------------------------------ calls and returns
Top(t) == frames[t][Len(frames[t])]

\* the stage of goroutine t's innermost DoInTransaction; "fn" at top level
Stage(t) == IF frames[t] = <<>> THEN "fn" ELSE Top(t).stage

\* goroutine t runs caller code: top level, or the f of a DoInTransaction
InCaller(t) == pc[t] = "idle" /\ Stage(t) = "fn"

\* op(s, ctx) starts now in goroutine t: called by caller code (user), or by
\* the DoInTransaction that set it up
Called(t, op, s, ctx, user) ==
    \/ user /\ InCaller(t) /\ ncalls < MaxCalls
    \/ pc[t] = "call" /\ op = cur[t].op /\ s = cur[t].s /\ ctx = cur[t].ctx

Counted(t) == IF pc[t] = "idle" THEN ncalls + 1 ELSE ncalls

Pop(fr) == SubSeq(fr, 1, Len(fr) - 1)
SetTop(fr, f) == [fr EXCEPT ![Len(fr)] = f]

\* a DoInTransaction that returns nil when its StartTransaction failed
DoInTransactionStartNil(r) == Nil

\* lines 150-153: ctx, err := s.StartTransaction(ctx); return err
DoInTransactionStartError(r) == r.err

\* a DoInTransaction that returns what its Rollback call returned
DoInTransactionRollbackError(top, r) == r.err

\* The error DoInTransaction returns after its Rollback call returned r:
\* the error of f or of Commit it kept, never the one of Rollback.
DoInTransactionError(top, r) == top.err

\* The API call of goroutine t returns r.  A call made by caller code hands
\* its context to the caller; a call made by DoInTransaction continues it.
Finish(t, r) ==
    /\ ret' = [ret EXCEPT ![t] = [r EXCEPT !.at = Counted(t)]]
    /\ IF Stage(t) = "fn"
       THEN /\ pc' = [pc EXCEPT ![t] = "idle"]
            /\ cur' = [cur EXCEPT ![t] = NoCur]
            /\ ctxs' = ctxs \cup {r.ctx[i] : i \in 1..Len(r.ctx)}
            /\ UNCHANGED <<frames, rret>>
       ELSE LET top == Top(t) IN
            CASE top.stage = "start" ->
                   \* ctx, err := s.StartTransaction(ctx); if err != nil return err
                   IF r.err # Nil
                   THEN /\ frames' = [frames EXCEPT ![t] = Pop(@)]
                        /\ rret' = [rret EXCEPT ![t] =
                               [done |-> TRUE, err |-> DoInTransactionStartError(r)]]
                        /\ pc' = [pc EXCEPT ![t] = "idle"]
                        /\ cur' = [cur EXCEPT ![t] = NoCur]
                        /\ ctxs' = ctxs
                   ELSE /\ frames' = [frames EXCEPT ![t] =
                               SetTop(@, [top EXCEPT !.ctx = r.ctx[1],
                                                     !.stage = "fn",
                                                     !.sp = r.n])]
                        /\ pc' = [pc EXCEPT ![t] = "idle"]
                        /\ cur' = [cur EXCEPT ![t] = NoCur]
                        /\ ctxs' = ctxs \cup {r.ctx[1]}   \* f(ctx)
                        /\ rret' = rret
              [] top.stage = "commit" ->
                   \* if _, err := s.Commit(ctx); err != nil { s.Rollback(ctx) ...
                   IF r.err # Nil
                   THEN /\ frames' = [frames EXCEPT ![t] =
                               SetTop(@, [top EXCEPT !.stage = "rollback_commit",
                                                     !.err = r.err])]
                        /\ pc' = [pc EXCEPT ![t] = "call"]
                        /\ cur' = [cur EXCEPT ![t] =
                               [s |-> top.s, ctx |-> top.ctx, h |-> 0, op |-> "Rollback"]]
                        /\ UNCHANGED <<ctxs, rret>>
                   ELSE /\ frames' = [frames EXCEPT ![t] = Pop(@)]
                        /\ rret' = [rret EXCEPT ![t] = [done |-> TRUE, err |-> Nil]]
                        /\ pc' = [pc EXCEPT ![t] = "idle"]
                        /\ cur' = [cur EXCEPT ![t] = NoCur]
                        /\ ctxs' = ctxs
              [] OTHER ->
                   \* s.Rollback(ctx); return err
                   /\ frames' = [frames EXCEPT ![t] = Pop(@)]
                   /\ rret' = [rret EXCEPT ![t] =
                          [done |-> TRUE, err |-> DoInTransactionError(top, r)]]
                   /\ pc' = [pc EXCEPT ![t] = "idle"]
                   /\ cur' = [cur EXCEPT ![t] = NoCur]
                   /\ ctxs' = ctxs

\* What op(s, arg) returned: the error, the context (<<>> for nil), and for
\* GetTransaction the *sql.Tx; sql is the statement the call issued, if any,
\* and at tells the returns of a goroutine apart (the calls made so far).
Result(op, s, arg, err, ctx, sql, n) ==
    [op |-> op, s |-> s, arg |-> arg, err |-> err, ctx |-> ctx, tx |-> 0,
     sql |-> sql, n |-> n, at |-> 0]

\* a StartTransaction, Commit or Rollback that does not wait for the mutex
MutexIgnored(h) == TRUE

\* savePointMtx
MutexFree(h) == handles[h].savePointMtx = 0

\* a call that works on a copy of the Handle: the shared mutex stays free
LockCopy(h, t) == handles

Lock(h, t) == [handles EXCEPT ![h].savePointMtx = t]
Unlock(hs, h) == [hs EXCEPT ![h].savePointMtx = 0]

\* ------------------------------------------------------- StartTransaction
SavepointSQL(n) == "SAVEPOINT SP" \o FormatUint(n)

\* a StartTransaction that skips a savepoint number
StartIncrementTwo(n) == n + 2

\* a StartTransaction that forgets t.savePoint++
StartIncrementNone(n) == n

\* t.savePoint++
StartIncrement(n) == n + 1

\* lines 22-41.  The lookup t := ctx.Value(s.transactionKey()).  Without a
\* Handle: db.Begin() and the context carrying the new Handle.  With one:
\* t.savePointMtx.Lock() (the call waits while the mutex is held).
StartTransaction(t, user) ==
    \E s \in mysql, ctx \in ctxs :
      /\ Called(t, "StartTransaction", s, ctx, user)
      /\ ncalls' = Counted(t)
      /\ UNCHANGED mysql
      /\ LET k == transactionKey(s)
             v == Value(ctx, k)
         IN  IF v = 0
             THEN \E e \in BeginResults :
                    /\ nfails' = Failed(e)
                    /\ IF e = Nil
                       THEN /\ Len(txs) < MaxTxs
                            /\ txs' = Append(txs,
                                  [status |-> "open", owner |-> "coordinator",
                                   log |-> <<Stmt(Len(handles) + 1, "StartTransaction",
                                                  "BEGIN", 0, "BEGIN", Nil)>>])
                            /\ handles' = Append(handles,
                                  [tx |-> Len(txs) + 1, savePoint |-> 0, savePointMtx |-> 0])
                            /\ Finish(t, Result("StartTransaction", s, ctx, Nil,
                                  <<WithValue(ctx, k, Len(handles) + 1)>>, "BEGIN", 0))
                       ELSE /\ UNCHANGED <<handles, txs>>
                            /\ Finish(t, Result("StartTransaction", s, ctx, e, <<>>, "BEGIN", 0))
             ELSE /\ MutexFree(v)
                  /\ handles' = Lock(v, t)
                  /\ pc' = [pc EXCEPT ![t] = "start_inc"]
                  /\ cur' = [cur EXCEPT ![t] =
                         [s |-> s, ctx |-> ctx, h |-> v, op |-> "StartTransaction"]]
                  /\ UNCHANGED <<txs, ctxs, frames, ret, rret, nfails>>

\* line 44: t.savePoint++
StartInc(t) ==
    /\ pc[t] = "start_inc"
    /\ handles' = [handles EXCEPT ![cur[t].h].savePoint = StartIncrement(@)]
    /\ pc' = [pc EXCEPT ![t] = "start_exec"]
    /\ UNCHANGED <<mysql, txs, ctxs, cur, frames, ret, rret, ncalls, nfails>>

\* lines 49-54: t.tx.Exec("SAVEPOINT SP<savePoint>"), the deferred Unlock
StartExec(t) ==
    /\ pc[t] = "start_exec"
    /\ LET h == cur[t].h
           x == handles[h].tx
           n == handles[h].savePoint
           sql == SavepointSQL(n)
       IN  \E e \in DriverResults(x, sql) :
             /\ nfails' = Failed(e)
             /\ txs' = Logged(x, Stmt(h, "StartTransaction", "SAVEPOINT", n, sql, e),
                              txs[x].status)
             /\ handles' = Unlock(handles, h)
             /\ Finish(t, Result("StartTransaction", cur[t].s, cur[t].ctx, e,
                    IF e = Nil THEN <<cur[t].ctx>> ELSE <<>>, sql, n))
    /\ UNCHANGED <<ncalls, mysql>>

\* ------------------------------------------------------ Commit, Rollback
ReleaseSQL(n) == "RELEASE SAVEPOINT SP" \o FormatUint(n)
RollbackToSQL(n) == "ROLLBACK TO SAVEPOINT SP" \o FormatUint(n)

\* a Commit/Rollback that forgets t.savePoint--
DecrementNone(n) == n

\* t.savePoint-- (reached with savePoint > 0 only)
Decrement(n) == n - 1

\* a Commit/Rollback that takes a missing Handle for nothing to do
NoHandleNil(op) == Nil

\* The error of Commit and Rollback called without a Handle in ctx
NoHandleError(op) == ErrNoStarted

\* lines 73-82 (Commit), 111-120 (Rollback): the lookup, the error without a
\* Handle, t.savePointMtx.Lock()
EndEntry(t, op, user) ==
    \E s \in mysql, ctx \in ctxs :
      /\ Called(t, op, s, ctx, user)
      /\ ncalls' = Counted(t)
      /\ UNCHANGED mysql
      /\ LET v == Value(ctx, transactionKey(s))
         IN  IF v = 0
             THEN /\ Finish(t, Result(op, s, ctx, NoHandleError(op), <<>>, "", 0))
                  /\ UNCHANGED <<handles, txs, nfails>>
             ELSE /\ MutexFree(v)
                  /\ handles' = Lock(v, t)
                  /\ pc' = [pc EXCEPT ![t] = "end_exec"]
                  /\ cur' = [cur EXCEPT ![t] =
                         [s |-> s, ctx |-> ctx, h |-> v, op |-> op]]
                  /\ UNCHANGED <<txs, ctxs, frames, ret, rret, nfails>>

\* a Rollback that releases the savepoint instead of rolling back to it
EndSQLRelease(op, n) == ReleaseSQL(n)

\* The statement Commit / Rollback issues for savepoint n
EndSQL(op, n) == IF op = "Commit" THEN ReleaseSQL(n) ELSE RollbackToSQL(n)
EndKind(op) == IF op = "Commit" THEN "RELEASE" ELSE "ROLLBACK TO"

\* a Commit/Rollback that decrements savePoint although Exec failed
FailedEndDecrement(h) == Unlock([handles EXCEPT ![h].savePoint = Decrement(@)], h)

\* lines 89-91, 104-106 (Commit), 127-129, 142-144 (Rollback): return nil,
\* err; the deferred Unlock runs and nothing else of the Handle changes
FailedEnd(h) == Unlock(handles, h)

\* lines 102 (Commit), 140 (Rollback): the state tx.Commit() / tx.Rollback()
\* leaves the *sql.Tx in.  database/sql marks the Tx done before it calls the
\* driver, so a call that fails leaves it finished as well, with the outcome
\* on the server unknown ("done").
Finished(op, e) ==
    IF e # Nil THEN "done"
    ELSE IF op = "Commit" THEN "committed" ELSE "rolledback"

\* lines 84-91 and 98-108 (Commit), 122-129 and 136-146 (Rollback): with
\* savePoint > 0 the savepoint statement; otherwise the real call on the
\* *sql.Tx and, when it succeeds, the context with the key bound to nil
EndExec(t, op) ==
    /\ pc[t] = "end_exec"
    /\ cur[t].op = op
    /\ LET h == cur[t].h
           x == handles[h].tx
           n == handles[h].savePoint
       IN  IF n > 0
           THEN LET sql == EndSQL(op, n)
                IN  \E e \in DriverResults(x, sql) :
                      /\ nfails' = Failed(e)
                      /\ txs' = Logged(x, Stmt(h, op, EndKind(op), n, sql, e), txs[x].status)
                      /\ IF e = Nil
                         THEN /\ pc' = [pc EXCEPT ![t] = "end_dec"]
                              /\ UNCHANGED <<handles, ctxs, cur, frames, ret, rret>>
                         ELSE /\ handles' = FailedEnd(h)
                              /\ Finish(t, Result(op, cur[t].s, cur[t].ctx, e, <<>>, sql, n))
           ELSE LET sql == IF op = "Commit" THEN "COMMIT" ELSE "ROLLBACK"
                IN  \E e \in DriverResults(x, sql) :
                      /\ nfails' = Failed(e)
                      /\ txs' = Logged(x, Stmt(h, op, sql, 0, sql, e),
                                       IF txs[x].status = "open" THEN Finished(op, e)
                                       ELSE txs[x].status)
                      /\ handles' = IF e = Nil THEN Unlock(handles, h) ELSE FailedEnd(h)
                      /\ Finish(t, Result(op, cur[t].s, cur[t].ctx, e,
                             IF e = Nil
                             THEN <<WithValue(cur[t].ctx, transactionKey(cur[t].s), 0)>>
                             ELSE <<>>, sql, 0))
    /\ UNCHANGED <<ncalls, mysql>>

\* lines 93-95 (Commit), 131-133 (Rollback): t.savePoint--, return ctx, nil
EndDec(t, op) ==
    /\ pc[t] = "end_dec"
    /\ cur[t].op = op
    /\ LET h == cur[t].h
           n == handles[h].savePoint
       IN  /\ handles' = Unlock([handles EXCEPT ![h].savePoint = Decrement(@)], h)
           /\ Finish(t, Result(op, cur[t].s, cur[t].ctx, Nil, <<cur[t].ctx>>,
                               EndSQL(op, n), n))
    /\ UNCHANGED <<mysql, txs, ncalls, nfails>>

Commit(t, user) == EndEntry(t, "Commit", user)
CommitExec(t) == EndExec(t, "Commit")
CommitDec(t) == EndDec(t, "Commit")

Rollback(t, user) == EndEntry(t, "Rollback", user)
RollbackExec(t) == EndExec(t, "Rollback")
RollbackDec(t) == EndDec(t, "Rollback")

\* --------------------------------------- UseTransaction, GetTransaction
\* a UseTransaction that does not look for a Handle in ctx
AlreadyStartedNever(ctx, k) == FALSE

\* lines 63-64: t := ctx.Value(s.transactionKey()); t != nil
AlreadyStarted(ctx, k) == Value(ctx, k) # 0

\* lines 58-71.  tx is nil (0), a *sql.Tx the caller got hold of, or one the
\* caller has just opened itself (the coordinator issued nothing on it).
\* The tx field of what it returns records the argument tx.
UseTransaction(t) ==
    \E s \in mysql, ctx \in ctxs, x \in 0..(Len(txs) + 1) :
      /\ Called(t, "UseTransaction", s, ctx, TRUE)
      /\ ncalls' = Counted(t)
      /\ UNCHANGED mysql
      /\ x <= MaxTxs
      /\ LET k == transactionKey(s)
         IN  IF x = 0
             THEN /\ Finish(t, Result("UseTransaction", s, ctx, ErrNoTxProvided, <<>>, "", 0))
                  /\ UNCHANGED <<handles, txs>>
             ELSE IF AlreadyStarted(ctx, k)
             THEN /\ Finish(t, [Result("UseTransaction", s, ctx, ErrAlreadyStarted, <<>>, "", 0)
                                   EXCEPT !.tx = x])
                  /\ UNCHANGED <<handles, txs>>
             ELSE /\ txs' = IF x > Len(txs)
                            THEN Append(txs, [status |-> "open", owner |-> "caller",
                                              log |-> <<>>])
                            ELSE txs
                  /\ handles' = Append(handles,
                         [tx |-> x, savePoint |-> 0, savePointMtx |-> 0])
                  /\ Finish(t, [Result("UseTransaction", s, ctx, Nil,
                         <<WithValue(ctx, k, Len(handles) + 1)>>, "", 0)
                                   EXCEPT !.tx = x])
      /\ UNCHANGED nfails

\* a GetTransaction that never finds a transaction
GetTransactionNone(v) == 0

\* lines 171-175: nil (0) without a Handle, else t.(*transaction).tx
GetTransactionTx(v) == IF v = 0 THEN 0 ELSE handles[v].tx

\* lines 168-176: the *sql.Tx of the Handle in ctx, or nil (0)
GetTransaction(t) ==
    \E s \in mysql, ctx \in ctxs :
      /\ Called(t, "GetTransaction", s, ctx, TRUE)
      /\ ncalls' = Counted(t)
      /\ UNCHANGED mysql
      /\ LET v == Value(ctx, transactionKey(s))
         IN  Finish(t, [Result("GetTransaction", s, ctx, Nil, <<>>, "", 0)
                           EXCEPT !.tx = GetTransactionTx(v)])
      /\ UNCHANGED <<handles, txs, nfails>>

\* -------------------------------------------------------- DoInTransaction
NewFrame(s, ctx) ==
    [s |-> s, ctx0 |-> ctx, ctx |-> ctx, stage |-> "start", err |-> Nil, sp |-> 0]

\* line 150: caller code calls s.DoInTransaction(ctx, f), which calls
\* s.StartTransaction(ctx).  threaded: callers pass on the context they were
\* given (context.Background() at top level, the ctx of f inside f).
DoInTransaction(t, threaded) ==
    /\ InCaller(t)
    /\ ncalls < MaxCalls
    /\ Len(frames[t]) < MaxNest
    /\ \E s \in mysql, ctx \in ctxs :
         /\ threaded => ctx = (IF frames[t] = <<>> THEN Background ELSE Top(t).ctx)
         /\ frames' = [frames EXCEPT ![t] = Append(@, NewFrame(s, ctx))]
         /\ cur' = [cur EXCEPT ![t] =
                [s |-> s, ctx |-> ctx, h |-> 0, op |-> "StartTransaction"]]
    /\ pc' = [pc EXCEPT ![t] = "call"]
    /\ ncalls' = ncalls + 1
    /\ UNCHANGED <<mysql, handles, txs, ctxs, ret, rret, nfails>>

\* lines 155-160: f(ctx) returns e; DoInTransaction calls Rollback or Commit
FnReturn(t) ==
    /\ pc[t] = "idle"
    /\ frames[t] # <<>>
    /\ Stage(t) = "fn"
    /\ \E e \in {Nil, ErrFn} :
         LET top == Top(t)
             op == IF e = Nil THEN "Commit" ELSE "Rollback"
         IN  /\ frames' = [frames EXCEPT ![t] =
                    SetTop(@, [top EXCEPT !.stage = IF e = Nil THEN "commit" ELSE "rollback_fn",
                                          !.err = e])]
             /\ cur' = [cur EXCEPT ![t] =
                    [s |-> top.s, ctx |-> top.ctx, h |-> 0, op |-> op]]
    /\ pc' = [pc EXCEPT ![t] = "call"]
    /\ UNCHANGED <<mysql, handles, txs, ctxs, ret, rret, ncalls, nfails>>

\* ----------------------------------------------------------- the system
Next ==
    \E t \in Threads :
       \/ StartTransaction(t, TRUE)
       \/ StartInc(t)
       \/ StartExec(t)
       \/ Commit(t, TRUE)
       \/ CommitExec(t)
       \/ CommitDec(t)
       \/ Rollback(t, TRUE)
       \/ RollbackExec(t)
       \/ RollbackDec(t)
       \/ UseTransaction(t)
       \/ GetTransaction(t)

Spec == Init /\ [][Next]_vars

\* One goroutine that uses the coordinator through DoInTransaction only and
\* passes on the context it is given.
NextRunIn ==
    \/ DoInTransaction(1, TRUE)
    \/ FnReturn(1)
    \/ StartTransaction(1, FALSE)
    \/ StartInc(1)
    \/ StartExec(1)
    \/ Commit(1, FALSE)
    \/ CommitExec(1)
    \/ CommitDec(1)
    \/ Rollback(1, FALSE)
    \/ RollbackExec(1)
    \/ RollbackDec(1)

SpecRunIn == Init /\ [][NextRunIn]_vars

\* One goroutine of a program that constructed two MySQL instances and calls
\* both with the contexts it holds.
InitTwo == Constructed(Coords)

NextTwo ==
    \/ StartTransaction(1, TRUE)
    \/ StartInc(1)
    \/ StartExec(1)
    \/ Commit(1, TRUE)
    \/ CommitExec(1)
    \/ CommitDec(1)
    \/ Rollback(1, TRUE)
    \/ RollbackExec(1)
    \/ RollbackDec(1)
    \/ UseTransaction(1)
    \/ GetTransaction(1)

SpecTwo == InitTwo /\ [][NextTwo]_vars

\* =========================================================== the claims
TxIds == 1..Len(txs)
HandleIds == 1..Len(handles)
Log(x) == txs[x].log

\* the positions of tx x's log that are statements of Handle h
Of(x, h) == {i \in 1..Len(Log(x)) : Log(x)[i].h = h}

\* nested StartTransaction calls made through Handle h so far (each issued
\* its SAVEPOINT statement, created or not)
NestedStarts(h) ==
    Cardinality({i \in Of(handles[h].tx, h) : Log(handles[h].tx)[i].kind = "SAVEPOINT"})

\* Commit and Rollback calls through Handle h whose savepoint statement the
\* driver executed
NestedEnds(h) ==
    Cardinality({i \in Of(handles[h].tx, h) :
                    /\ Log(handles[h].tx)[i].kind \in {"RELEASE", "ROLLBACK TO"}
                    /\ Log(handles[h].tx)[i].ok})

\* the step in which goroutine t's Commit or Rollback makes its driver call
EndExecStep(t) == pc[t] = "end_exec" /\ pc'[t] # "end_exec"
Depth(t) == handles[cur[t].h].savePoint
DepthAfter(t) == handles'[cur[t].h].savePoint
Bound(ctx, s) == Value(ctx, transactionKey(s)) # 0

\* whether the driver call made in this step by goroutine t succeeded
DriverOk(t) ==
    LET l == txs'[handles[cur[t].h].tx].log IN l[Len(l)].ok

\* the kinds of statement that end a scope through Handle h
EndKinds == {"RELEASE", "ROLLBACK TO", "COMMIT", "ROLLBACK"}
NoEndYet(h) ==
    \A i \in Of(handles[h].tx, h) : Log(handles[h].tx)[i].kind \notin EndKinds

\* C1, as stated: after N nested StartTransaction calls through a Handle and
\* before any Commit/Rollback its savePoint is N; every following Commit or
\* Rollback decrements it by exactly 1 until it is 0, and the Commit/Rollback
\* executed at 0 returns a context in which the Handle is absent.
C1_Original ==
    /\ [](\A h \in HandleIds :
            MutexFree(h) /\ NoEndYet(h) => handles[h].savePoint = NestedStarts(h))
    /\ [][\A t \in Threads :
            /\ EndExecStep(t) /\ Depth(t) > 0 => pc'[t] = "end_dec"
            /\ pc[t] = "end_dec" /\ pc'[t] # "end_dec" =>
                   Depth(t) > 0 /\ DepthAfter(t) = Depth(t) - 1
            /\ EndExecStep(t) /\ Depth(t) = 0 =>
                   /\ ret'[t].ctx # <<>>
                   /\ ~Bound(ret'[t].ctx[1], cur[t].s)]_vars

\* C1, amended: savePoint is the number of nested StartTransaction calls made
\* through the Handle minus the number of Commit/Rollback calls whose
\* savepoint statement succeeded (N after N nested calls and before any
\* Commit/Rollback); a Commit or Rollback whose driver call succeeds
\* decrements it by exactly 1 while it is above 0, and at 0 returns a context
\* in which the Handle is absent; one whose driver call fails leaves
\* savePoint as it was and returns no context.
C1_Amended ==
    /\ [](\A h \in HandleIds :
            MutexFree(h) => handles[h].savePoint = NestedStarts(h) - NestedEnds(h))
    /\ [][\A t \in Threads :
            /\ EndExecStep(t) /\ Depth(t) > 0 =>
                   IF DriverOk(t) THEN pc'[t] = "end_dec"
                   ELSE DepthAfter(t) = Depth(t) /\ ret'[t].ctx = <<>>
            /\ pc[t] = "end_dec" /\ pc'[t] # "end_dec" =>
                   Depth(t) > 0 /\ DepthAfter(t) = Depth(t) - 1
            /\ EndExecStep(t) /\ Depth(t) = 0 =>
                   IF DriverOk(t)
                   THEN ret'[t].ctx # <<>> /\ ~Bound(ret'[t].ctx[1], cur[t].s)
                   ELSE DepthAfter(t) = 0 /\ ret'[t].ctx = <<>>]_vars

Kinds(x) == [i \in 1..Len(Log(x)) |-> Log(x)[i].kind]
Sqls(x) == [i \in 1..Len(Log(x)) |-> Log(x)[i].sql]
Ops(x) == [i \in 1..Len(Log(x)) |-> Log(x)[i].op]
AllOk(x) == \A i \in 1..Len(Log(x)) : Log(x)[i].ok
OneHandle(x) == \A i, j \in 1..Len(Log(x)) : Log(x)[i].h = Log(x)[j].h

\* C1 witness: a nested scope was opened and committed, then the Commit at
\* savePoint 0 returned a context without the Handle
C1_Witness ==
    \E x \in TxIds, t \in Threads :
      /\ Kinds(x) = <<"BEGIN", "SAVEPOINT", "RELEASE", "COMMIT">>
      /\ AllOk(x)
      /\ pc[t] = "idle" /\ ret[t].op = "Commit" /\ ret[t].sql = "COMMIT"
      /\ ret[t].ctx # <<>>

\* C2: StartTransaction on a context without a Handle, StartTransaction
\* (nested), Rollback, Commit, all through the Handle the first call made,
\* issue exactly BEGIN, SAVEPOINT SP1, ROLLBACK TO SAVEPOINT SP1, COMMIT.
C2_ScenarioA ==
    \A x \in TxIds :
      /\ txs[x].owner = "coordinator"
      /\ Ops(x) = <<"StartTransaction", "StartTransaction", "Rollback", "Commit">>
      /\ OneHandle(x)
      /\ AllOk(x)
      => Sqls(x) = <<"BEGIN", "SAVEPOINT SP1", "ROLLBACK TO SAVEPOINT SP1", "COMMIT">>

\* C2 witness: the four calls of Scenario A were made and succeeded
C2_Witness ==
    \E x \in TxIds :
      /\ txs[x].owner = "coordinator"
      /\ Ops(x) = <<"StartTransaction", "StartTransaction", "Rollback", "Commit">>
      /\ OneHandle(x)
      /\ AllOk(x)
      /\ txs[x].status = "committed"

\* ------------------------------------------------ DoInTransaction claims
\* the statement goroutine t's call issues in this step
LastStmt(t) ==
    LET l == txs'[handles[cur[t].h].tx].log IN l[Len(l)]

\* a DoInTransaction called on a context that already had a Handle
Nested(f) == Bound(f.ctx0, f.s)
\* the innermost DoInTransaction of goroutine t returns in this step
Returns(t) == Len(frames'[t]) < Len(frames[t])

\* C3: a DoInTransaction called inside the f of another with the context
\* passed on issues a SAVEPOINT, not a BEGIN; when its f succeeds it issues
\* RELEASE SAVEPOINT for that savepoint and not the real COMMIT; the real
\* COMMIT is what the Commit of the outermost DoInTransaction issues, once.
C3_ScenarioC ==
    /\ [](\A t \in Threads : \A i \in 1..Len(frames[t]) :
            frames[t][i].stage # "start" /\ Nested(frames[t][i]) => frames[t][i].sp > 0)
    /\ [][\A t \in Threads :
            EndExecStep(t) /\ Stage(t) = "commit" =>
               IF Nested(Top(t))
               THEN LastStmt(t).sql = ReleaseSQL(Top(t).sp)
               ELSE /\ LastStmt(t).sql = "COMMIT"
                    /\ \A i \in 1..Len(Log(handles[cur[t].h].tx)) :
                          Log(handles[cur[t].h].tx)[i].kind # "COMMIT"]_vars

\* C4: when DoInTransaction is called on a context without a Handle and f
\* returns an error, the real transaction is rolled back (the Rollback call
\* issues the real ROLLBACK) and never committed, and DoInTransaction returns
\* the error of f.
C4_ScenarioB ==
    [][\A t \in Threads :
         /\ EndExecStep(t) /\ Stage(t) = "rollback_fn" /\ ~Nested(Top(t)) =>
              LastStmt(t).sql = "ROLLBACK"
         /\ Stage(t) = "rollback_fn" /\ ~Nested(Top(t)) /\ Returns(t) =>
              /\ rret'[t].err = Top(t).err
              /\ LET x == handles[Value(Top(t).ctx, transactionKey(Top(t).s))].tx
                 IN  \A i \in 1..Len(txs'[x].log) : txs'[x].log[i].kind # "COMMIT"]_vars

\* C5: when f succeeds and Commit fails, DoInTransaction calls Rollback with
\* the same context, the Rollback addresses what the failed Commit addressed
\* (the same savepoint, or the real transaction) and DoInTransaction returns
\* the error of Commit; when Commit succeeds it returns nil without calling
\* Rollback.
C5_CommitFails ==
    [][\A t \in Threads :
         /\ Stage(t) = "commit" /\ frames'[t] # frames[t] =>
              IF ret'[t].err # Nil
              THEN /\ ~Returns(t)
                   /\ pc'[t] = "call"
                   /\ cur'[t].op = "Rollback"
                   /\ cur'[t].s = Top(t).s
                   /\ cur'[t].ctx = Top(t).ctx
              ELSE /\ frames'[t] = Pop(frames[t])
                   /\ pc'[t] = "idle"
                   /\ rret'[t] = [done |-> TRUE, err |-> Nil]
         /\ EndExecStep(t) /\ Stage(t) = "rollback_commit" =>
              /\ ret[t].op = "Commit" /\ ret[t].err # Nil
              /\ LET l == Log(handles[cur[t].h].tx)
                 IN  l[Len(l)].sql = ret[t].sql /\ ~l[Len(l)].ok
              /\ LastStmt(t).sql = IF ret[t].sql = "COMMIT" THEN "ROLLBACK"
                                   ELSE RollbackToSQL(ret[t].n)
         /\ Stage(t) = "rollback_commit" /\ Returns(t) =>
              /\ ret[t].op = "Commit" /\ ret'[t].op = "Rollback"
              /\ rret'[t].err = ret[t].err
              /\ rret'[t].err # Nil]_vars

\* C5 witness: a Commit called by DoInTransaction failed in the driver, the
\* Rollback was made and DoInTransaction returned the error of Commit
C5_Witness ==
    \E t \in Threads :
      /\ rret[t].done
      /\ rret[t].err \in {DriverErr("COMMIT"), DriverErr(ReleaseSQL(1))}
      /\ ret[t].op = "Rollback"
      /\ ret[t].err = Nil
      /\ pc[t] = "idle"

\* ------------------------------------------------------------ API claims
\* C6: after a Commit or Rollback at savePoint 0 has finalized the real
\* transaction, a call made with a context that still carries the Handle
\* behaves as without a Handle: the finalized transaction gets no further
\* call through that Handle, and Commit and Rollback return the error of a
\* call without a Handle.
C6_Idempotence ==
    /\ \A x \in TxIds : \A i, j \in 1..Len(Log(x)) :
          /\ i < j
          /\ Log(x)[i].kind \in {"COMMIT", "ROLLBACK"} /\ Log(x)[i].ok
          => Log(x)[j].h # Log(x)[i].h
    /\ \A t \in Threads :
          /\ pc[t] = "idle" /\ ret[t].op \in {"Commit", "Rollback"}
          /\ Bound(ret[t].arg, ret[t].s)
          /\ txs[handles[Value(ret[t].arg, transactionKey(ret[t].s))].tx].status
                \in {"committed", "rolledback"}
          /\ ret[t].err # Nil
          => ret[t].err = ErrNoStarted

\* C7: a nested StartTransaction whose SAVEPOINT statement fails leaves
\* savePoint at its value before the call (at the Exec the call has already
\* incremented it, so that value is one less), and no Commit or Rollback
\* names a savepoint without a SAVEPOINT statement that created it.
C7_FailedStart ==
    /\ [][\A t \in Threads :
            pc[t] = "start_exec" /\ pc'[t] # "start_exec" /\ ~DriverOk(t) =>
               DepthAfter(t) = Depth(t) - 1]_vars
    /\ [](\A x \in TxIds : \A k \in 1..Len(Log(x)) :
            /\ Log(x)[k].kind \in {"RELEASE", "ROLLBACK TO"}
            /\ txs[x].owner = "coordinator"
            => \E i \in 1..(k - 1) :
                  /\ Log(x)[i].kind = "SAVEPOINT" /\ Log(x)[i].ok
                  /\ Log(x)[i].n = Log(x)[k].n)

\* the SAVEPOINT statements of Handle h in the log of tx x
Savepoints(x, h) == {i \in Of(x, h) : Log(x)[i].kind = "SAVEPOINT"}
\* a statement of Handle h between i and j that ended the scope of SP<n>
EndedBetween(x, h, n, i, j) ==
    \E k \in Of(x, h) :
      /\ i < k /\ k < j
      /\ Log(x)[k].kind \in {"RELEASE", "ROLLBACK TO"}
      /\ Log(x)[k].n = n
      /\ Log(x)[k].ok

\* C8, as stated: over the life of a Handle no two SAVEPOINT statements name
\* the same SP<n>.
C8_Original ==
    \A x \in TxIds, h \in HandleIds : \A i, j \in Savepoints(x, h) :
       i < j => Log(x)[i].sql # Log(x)[j].sql

\* C8, amended: the identifier is SP<savePoint>, the nesting depth: two
\* SAVEPOINT statements of a Handle name the same SP<n> only when a RELEASE
\* SAVEPOINT SP<n> or ROLLBACK TO SAVEPOINT SP<n> of that Handle succeeded
\* between them.
C8_Amended ==
    \A x \in TxIds, h \in HandleIds : \A i, j \in Savepoints(x, h) :
       i < j /\ Log(x)[i].sql = Log(x)[j].sql => EndedBetween(x, h, Log(x)[i].n, i, j)

\* C8 witness: SP1 was named again after its scope was ended
C8_Witness ==
    \E x \in TxIds, h \in HandleIds : \E i, j \in Savepoints(x, h) :
       /\ i < j
       /\ Log(x)[i].sql = "SAVEPOINT SP1" /\ Log(x)[j].sql = "SAVEPOINT SP1"
       /\ Log(x)[i].ok /\ Log(x)[j].ok

\* C9: StartTransaction calls of concurrent callers on one Handle issue
\* strictly increasing savepoint numbers, in the order the statements reach
\* the database: of two SAVEPOINT statements of a Handle with no Commit or
\* Rollback of that Handle between them, the later names the larger number.
C9_ScenarioD ==
    \A x \in TxIds, h \in HandleIds : \A i, j \in Savepoints(x, h) :
       /\ i < j
       /\ \A k \in Of(x, h) : i < k /\ k < j => Log(x)[k].kind = "SAVEPOINT"
       => Log(x)[i].n < Log(x)[j].n

\* C9 witness: two goroutines called StartTransaction on one Handle, one
\* got SP1 and the other SP2
C9_Witness ==
    \E x \in TxIds, h \in HandleIds : \E i, j \in Savepoints(x, h) :
       /\ j = i + 1
       /\ Log(x)[i].n = 1 /\ Log(x)[j].n = 2
       /\ ret[1].op = "StartTransaction" /\ ret[2].op = "StartTransaction"
       /\ ret[1].sql # ret[2].sql
       /\ {ret[1].n, ret[2].n} = {1, 2}
       /\ ret[1].arg = ret[2].arg

\* C10: Commit and Rollback on a context without a Handle fail with "No
\* started transaction", issue nothing and change no Handle.
C10_NoHandle ==
    /\ [](\A t \in Threads :
            /\ pc[t] = "idle" /\ ret[t].op \in {"Commit", "Rollback"}
            /\ ~Bound(ret[t].arg, ret[t].s)
            => /\ ret[t].err = "No started transaction"
               /\ ret[t].ctx = <<>>
               /\ ret[t].sql = "")
    /\ [][\A t \in Threads :
            /\ ret'[t] # ret[t] /\ ret'[t].op \in {"Commit", "Rollback"}
            /\ ~Bound(ret'[t].arg, ret'[t].s)
            => handles' = handles /\ txs' = txs /\ nfails' = nfails]_vars

\* C10 witness: a Rollback on context.Background() returned the error while
\* a transaction was open
C10_Witness ==
    \E t \in Threads :
      /\ pc[t] = "idle" /\ ret[t].op = "Rollback" /\ ret[t].arg = Background
      /\ ret[t].err = ErrNoStarted
      /\ \E x \in TxIds : txs[x].status = "open"

\* ------------------------------------- UseTransaction, GetTransaction claims
\* the call goroutine t made in this step returned in it
Returned(t, op) == ret'[t] # ret[t] /\ ret'[t].op = op
\* the Handle a returned context carries for the instance that returned it
HandleOf(r) == Value(r.ctx[1], transactionKey(r.s))

\* C11: UseTransaction(ctx, tx) succeeds exactly when tx is not nil and ctx
\* has no Handle; it then returns ctx with a new Handle on tx with savePoint
\* 0, so that the next StartTransaction on that context issues SAVEPOINT SP1
\* on tx and no BEGIN; with a nil tx it fails with "No transaction provided",
\* with a Handle in ctx with "Transaction already started" (so on the context
\* an UseTransaction returned), and a failing call changes no Handle.
C11_Adopt ==
    /\ [][\A t \in Threads : Returned(t, "UseTransaction") =>
            LET r == ret'[t] IN
            /\ r.err = Nil <=> (r.tx # 0 /\ ~Bound(r.arg, r.s))
            /\ r.err = Nil =>
                 /\ handles' = Append(handles,
                        [tx |-> r.tx, savePoint |-> 0, savePointMtx |-> 0])
                 /\ r.ctx = <<WithValue(r.arg, transactionKey(r.s), Len(handles'))>>
                 /\ \A x \in TxIds : txs'[x] = txs[x]
            /\ r.err # Nil =>
                 /\ r.err = IF r.tx = 0 THEN "No transaction provided"
                            ELSE "Transaction already started"
                 /\ r.ctx = <<>>
                 /\ handles' = handles /\ txs' = txs]_vars
    /\ [](\A t \in Threads :
            ret[t].op = "UseTransaction" /\ ret[t].err = Nil =>
               LET h == HandleOf(ret[t])
                   x == ret[t].tx
               IN  /\ handles[h].tx = x
                   /\ \A y \in TxIds : y # x => Of(y, h) = {}
                   /\ \A i \in Of(x, h) :
                        /\ Log(x)[i].kind # "BEGIN"
                        /\ (\A j \in Of(x, h) : i <= j) /\ Log(x)[i].op = "StartTransaction"
                           => Log(x)[i].sql = "SAVEPOINT SP1")
    /\ [](\A t \in Threads :
            /\ ret[t].op = "UseTransaction"
            /\ \E u \in Threads : /\ ret[u].op = "UseTransaction" /\ ret[u].err = Nil
                                  /\ ret[u].s = ret[t].s /\ ret[u].ctx = <<ret[t].arg>>
            /\ ret[t].tx # 0
            => ret[t].err = ErrAlreadyStarted)

\* C11 witness: a transaction the caller opened was adopted, the context
\* returned was given to StartTransaction, which issued SAVEPOINT SP1 on it,
\* and a second UseTransaction on that context failed
C11_Witness ==
    \E t, u \in Threads, x \in TxIds :
      /\ ret[t].op = "UseTransaction" /\ ret[t].err = Nil /\ ret[t].tx = x
      /\ txs[x].owner = "caller"
      /\ Sqls(x) = <<"SAVEPOINT SP1">> /\ AllOk(x)
      /\ Log(x)[1].h = HandleOf(ret[t])
      /\ ret[u].op = "UseTransaction" /\ ret[u].err = ErrAlreadyStarted
      /\ ret[u].arg = ret[t].ctx[1]

\* goroutine t is inside a StartTransaction, Commit or Rollback that found a
\* Handle
InHandle(t) == pc[t] \in {"start_inc", "start_exec", "end_exec", "end_dec"}

\* C12: a context carries at most one Handle per MySQL instance.  A
\* StartTransaction on a context with a Handle begins no transaction and
\* makes no Handle; the context it returns is the one it was given (none when
\* it fails).  Every StartTransaction, Commit and Rollback called with that
\* context works, under its mutex, on the one Handle the context carries: it
\* changes that Handle's savePoint and the log of that Handle's *sql.Tx and
\* nothing else.
C12_OneHandle ==
    /\ [](\A t \in Threads : InHandle(t) =>
            /\ cur[t].h = Value(cur[t].ctx, transactionKey(cur[t].s))
            /\ cur[t].h \in HandleIds
            /\ handles[cur[t].h].savePointMtx = t)
    /\ [](\A ctx \in ctxs, s \in Coords : Bound(ctx, s) =>
            Value(ctx, transactionKey(s)) \in HandleIds)
    /\ [][\A t \in Threads :
            /\ (InHandle(t) \/ pc'[t] = "start_inc") /\ pc'[t] # pc[t] =>
                 Len(handles') = Len(handles) /\ Len(txs') = Len(txs)
            /\ InHandle(t) /\ pc'[t] # pc[t] =>
                 LET h == cur[t].h IN
                 /\ \A g \in HandleIds : g # h => handles'[g] = handles[g]
                 /\ handles'[h].tx = handles[h].tx
                 /\ \A x \in TxIds : x # handles[h].tx => txs'[x] = txs[x]
                 /\ pc[t] = "start_inc" => handles'[h].savePoint = handles[h].savePoint + 1
            /\ Returned(t, "StartTransaction") /\ Bound(ret'[t].arg, ret'[t].s) =>
                 /\ ret'[t].ctx = IF ret'[t].err = Nil THEN <<ret'[t].arg>> ELSE <<>>
                 /\ ret'[t].sql # "BEGIN"
                 /\ Len(handles') = Len(handles) /\ Len(txs') = Len(txs)]_vars

\* C12 witness: two goroutines called StartTransaction with the same context;
\* both statements went to the one transaction through the one Handle, whose
\* savePoint counts both
C12_Witness ==
    \E x \in TxIds :
      /\ ret[1].op = "StartTransaction" /\ ret[2].op = "StartTransaction"
      /\ ret[1].arg = ret[2].arg
      /\ ret[1].ctx = <<ret[1].arg>> /\ ret[2].ctx = <<ret[2].arg>>
      /\ Sqls(x) = <<"BEGIN", "SAVEPOINT SP1", "SAVEPOINT SP2">>
      /\ OneHandle(x)
      /\ handles[Log(x)[1].h].savePoint = 2
      /\ Len(handles) = 1 /\ Len(txs) = 1

\* C13: GetTransaction(ctx) returns the *sql.Tx of the Handle in ctx,
\* whatever its savePoint, and nil without a Handle; it changes no Handle and
\* no binding and issues nothing.
C13_GetActive ==
    [][\A t \in Threads : Returned(t, "GetTransaction") =>
         LET r == ret'[t]
             v == Value(r.arg, transactionKey(r.s))
         IN  /\ r.tx = IF Bound(r.arg, r.s) THEN handles[v].tx ELSE 0
             /\ Bound(r.arg, r.s) => r.tx \in TxIds
             /\ r.err = Nil /\ r.ctx = <<>> /\ r.sql = ""
             /\ handles' = handles /\ txs' = txs /\ ctxs' = ctxs
             /\ nfails' = nfails]_vars

\* C13 witness: GetTransaction returned the transaction of a Handle whose
\* savePoint is 1
C13_Witness ==
    \E t \in Threads :
      /\ pc = [u \in Threads |-> "idle"]
      /\ ret[t].op = "GetTransaction" /\ ret[t].tx \in TxIds
      /\ Bound(ret[t].arg, ret[t].s)
      /\ handles[Value(ret[t].arg, transactionKey(ret[t].s))].savePoint = 1
      /\ handles[Value(ret[t].arg, transactionKey(ret[t].s))].tx = ret[t].tx
      /\ Sqls(ret[t].tx) = <<"BEGIN", "SAVEPOINT SP1">>

\* ------------------------------------------------------ two MySQL instances
\* the Handle ctx carries for instance b
HandleIn(ctx, b) == Value(ctx, transactionKey(b))

\* the call of instance a on ctx, in the step that made r its result, saw no
\* Handle although ctx carries none for a: it behaved as on a context without
\* any Handle
AsAbsent(r) ==
    CASE r.op \in {"Commit", "Rollback"} -> r.err = ErrNoStarted /\ r.sql = ""
      [] r.op = "GetTransaction" -> r.tx = 0
      [] r.op = "StartTransaction" -> r.sql = "BEGIN"
      [] r.op = "UseTransaction" -> r.err = IF r.tx = 0 THEN ErrNoTxProvided ELSE Nil
      [] OTHER -> FALSE

\* C14: two MySQL instances have different keys.  A call of one instance on
\* a context that carries a Handle of the other sees no Handle unless the
\* context carries one of its own, leaves the other instance's Handle as it
\* is, and every context it returns carries the other's Handle as before.
C14_TwoCoordinators ==
    /\ [](\A a, b \in mysql : a # b => transactionKey(a) # transactionKey(b))
    /\ [][\A t \in Threads : \A b \in mysql :
            /\ InHandle(t) /\ pc'[t] # pc[t] /\ b # cur[t].s /\ Bound(cur[t].ctx, b) =>
                 /\ handles'[HandleIn(cur[t].ctx, b)] = handles[HandleIn(cur[t].ctx, b)]
                 /\ cur[t].h # HandleIn(cur[t].ctx, b)
            /\ ~InHandle(t) /\ pc'[t] \in {"start_inc", "end_exec"}
                 /\ b # cur'[t].s /\ Bound(cur'[t].ctx, b) =>
                 /\ handles'[HandleIn(cur'[t].ctx, b)] = handles[HandleIn(cur'[t].ctx, b)]
                 /\ cur'[t].h = HandleIn(cur'[t].ctx, cur'[t].s)
            /\ ret'[t] # ret[t] /\ b # ret'[t].s /\ Bound(ret'[t].arg, b) =>
                 /\ handles'[HandleIn(ret'[t].arg, b)] = handles[HandleIn(ret'[t].arg, b)]
                 /\ \A i \in 1..Len(ret'[t].ctx) :
                       HandleIn(ret'[t].ctx[i], b) = HandleIn(ret'[t].arg, b)
                 /\ ~Bound(ret'[t].arg, ret'[t].s) => AsAbsent(ret'[t])]_vars

\* C14 witness: a context carries a Handle of each instance; instance 1
\* committed its transaction with it, the Handle and the transaction of
\* instance 2 are as they were, and the context returned still carries the
\* Handle of instance 2
C14_Witness ==
    \E t \in Threads :
      /\ mysql = {1, 2}
      /\ pc[t] = "idle"
      /\ ret[t].op = "Commit" /\ ret[t].s = 1 /\ ret[t].err = Nil
      /\ Bound(ret[t].arg, 1) /\ Bound(ret[t].arg, 2)
      /\ ~Bound(ret[t].ctx[1], 1) /\ Bound(ret[t].ctx[1], 2)
      /\ LET h1 == HandleIn(ret[t].arg, 1)
             h2 == HandleIn(ret[t].arg, 2)
         IN  /\ h1 # h2
             /\ handles[h1].tx # handles[h2].tx
             /\ txs[handles[h1].tx].status = "committed"
             /\ txs[handles[h2].tx].status = "open"
             /\ Sqls(handles[h2].tx) = <<"BEGIN", "SAVEPOINT SP1">>
             /\ handles[h2].savePoint = 1

\* ------------------------------------------- DoInTransaction claims, cont.
\* what this step added to the log of transaction x
Added(x) == SubSeq(txs'[x].log, Len(txs[x].log) + 1, Len(txs'[x].log))

\* C15: when the StartTransaction called by DoInTransaction fails,
\* DoInTransaction returns that error at once: f is not called, and nothing
\* but the failed BEGIN or SAVEPOINT was issued (no Commit, no Rollback, no
\* RELEASE SAVEPOINT, no ROLLBACK TO SAVEPOINT).
C15_StartFails ==
    [][\A t \in Threads :
         Stage(t) = "start" /\ ret'[t] # ret[t] =>
            /\ ret'[t].op = "StartTransaction"
            /\ IF ret'[t].err # Nil
               THEN /\ frames'[t] = Pop(frames[t])
                    /\ rret'[t] = [done |-> TRUE, err |-> ret'[t].err]
                    /\ pc'[t] = "idle"
                    /\ Len(txs') = Len(txs)
                    /\ \A x \in TxIds :
                          /\ txs'[x].status = txs[x].status
                          /\ \A i \in 1..Len(Added(x)) :
                                Added(x)[i].kind = "SAVEPOINT" /\ ~Added(x)[i].ok
                    /\ \A h \in HandleIds : MutexFree(h)'
               ELSE /\ Len(frames'[t]) = Len(frames[t])
                    /\ Stage(t)' = "fn"]_vars

\* C15 witness: db.Begin() failed in a DoInTransaction called on
\* context.Background(), which returned the error with nothing issued
C15_Witness ==
    /\ rret[1] = [done |-> TRUE, err |-> DriverErr("BEGIN")]
    /\ ret[1].op = "StartTransaction" /\ ret[1].err = DriverErr("BEGIN")
    /\ frames[1] = <<>> /\ pc[1] = "idle"
    /\ txs = <<>> /\ handles = <<>>

\* ------------------------------------------------------ concurrency claims
\* the successful savepoint statements of Commit and Rollback through h
SavepointEnds(x, h) ==
    {i \in Of(x, h) : Log(x)[i].kind \in {"RELEASE", "ROLLBACK TO"} /\ Log(x)[i].ok}

\* the last statement issued through the Handle goroutine t works on
OwnStmt(t) ==
    LET x == handles[cur[t].h].tx
        i == CHOOSE i \in Of(x, cur[t].h) : \A j \in Of(x, cur[t].h) : j <= i
    IN  Log(x)[i]

\* C16: with goroutines sharing a Handle, the savePoint test, the savepoint
\* statement and the decrement of a Commit or Rollback are one atomic step
\* under savePointMtx: while a call holds the mutex no other goroutine
\* changes the Handle or issues a statement through it; savePoint stays
\* within 0 and the number of calls (a uint64 decremented at 0 would leave
\* that range); a successful nested Commit/Rollback leaves savePoint one
\* below the number it tested and named; and two successful savepoint
\* statements of Commit/Rollback name the same SP<n> only with a SAVEPOINT
\* SP<n> between them.
C16_Atomic ==
    /\ [](\A h \in HandleIds : handles[h].savePoint \in 0..MaxCalls)
    /\ [](\A t, u \in Threads :
            InHandle(t) /\ InHandle(u) /\ cur[t].h = cur[u].h => t = u)
    /\ [][\A t \in Threads :
            /\ InHandle(t) /\ pc'[t] = pc[t] =>
                 /\ handles'[cur[t].h] = handles[cur[t].h]
                 /\ Of(handles[cur[t].h].tx, cur[t].h)' = Of(handles[cur[t].h].tx, cur[t].h)
            /\ pc[t] = "end_dec" /\ pc'[t] # pc[t] =>
                 /\ OwnStmt(t).n = Depth(t) /\ OwnStmt(t).ok
                 /\ OwnStmt(t).kind \in {"RELEASE", "ROLLBACK TO"}
                 /\ Depth(t) > 0
                 /\ ret'[t].err = Nil /\ ret'[t].n = Depth(t)
                 /\ DepthAfter(t) = Depth(t) - 1]_vars
    /\ [](\A x \in TxIds, h \in HandleIds : \A i, j \in SavepointEnds(x, h) :
            i < j /\ Log(x)[i].n = Log(x)[j].n =>
               \E k \in Savepoints(x, h) : i < k /\ k < j /\ Log(x)[k].n = Log(x)[i].n)

\* C16 witness: two goroutines called Commit/Rollback with the same context
\* at savePoint 1; one ended the savepoint, the other found savePoint 0 and
\* finalized the transaction
C16_Witness ==
    \E x \in TxIds :
      /\ ret[1].op \in {"Commit", "Rollback"} /\ ret[2].op \in {"Commit", "Rollback"}
      /\ ret[1].arg = ret[2].arg
      /\ ret[1].err = Nil /\ ret[2].err = Nil
      /\ {ret[1].n, ret[2].n} = {0, 1}
      /\ Kinds(x)[1] = "BEGIN" /\ Kinds(x)[2] = "SAVEPOINT" /\ Len(Log(x)) = 4
      /\ Kinds(x)[3] \in {"RELEASE", "ROLLBACK TO"}
      /\ Kinds(x)[4] \in {"COMMIT", "ROLLBACK"}
      /\ OneHandle(x) /\ AllOk(x)
      /\ handles[Log(x)[1].h].savePoint = 0

\* ------------------------------------------------- savepoint state claims
\* C17: a Rollback at savePoint > 0 issues one statement, ROLLBACK TO
\* SAVEPOINT SP<savePoint>, and then decrements savePoint; no RELEASE
\* SAVEPOINT is ever issued for a savepoint that was rolled back to: after a
\* successful ROLLBACK TO SAVEPOINT SP<n> a RELEASE SAVEPOINT SP<n> of the
\* Handle follows only when a SAVEPOINT SP<n> created the savepoint anew in
\* between.
C17_NoRelease ==
    /\ [][\A t \in Threads :
            /\ EndExecStep(t) /\ cur[t].op = "Rollback" /\ Depth(t) > 0 =>
                 /\ Added(handles[cur[t].h].tx) =
                       <<Stmt(cur[t].h, "Rollback", "ROLLBACK TO", Depth(t),
                              RollbackToSQL(Depth(t)), IF DriverOk(t) THEN Nil ELSE "failed")>>
                 /\ DriverOk(t) => pc'[t] = "end_dec"
            /\ pc[t] = "end_dec" /\ pc'[t] # pc[t] =>
                 /\ DepthAfter(t) = Depth(t) - 1
                 /\ txs' = txs]_vars
    /\ [](\A x \in TxIds, h \in HandleIds : \A i, j \in Of(x, h) :
            /\ i < j
            /\ Log(x)[i].kind = "ROLLBACK TO" /\ Log(x)[i].ok
            /\ Log(x)[j].kind = "RELEASE" /\ Log(x)[j].n = Log(x)[i].n
            => \E k \in Savepoints(x, h) :
                  i < k /\ k < j /\ Log(x)[k].n = Log(x)[i].n /\ Log(x)[k].ok)

\* C18: a Commit or Rollback whose driver call fails returns the error of
\* the driver and no context, and leaves the Handle as it was: savePoint is
\* not decremented, the Handle keeps its *sql.Tx, which the call has neither
\* committed nor rolled back (a failed savepoint statement leaves it as it
\* was), and the context given still carries the Handle; so a Rollback that
\* follows through the Handle addresses the same savepoint, or calls
\* tx.Rollback() on the same real transaction.
C18_FailedEnd ==
    [][\A t \in Threads :
         /\ EndExecStep(t) /\ ~DriverOk(t) =>
              LET h == cur[t].h
                  x == handles[h].tx
              IN  /\ ret'[t].op = cur[t].op /\ ret'[t].arg = cur[t].ctx
                  /\ ret'[t].err \in {DriverErr(LastStmt(t).sql), ErrTxDone}
                  /\ ret'[t].ctx = <<>>
                  /\ handles'[h].savePoint = handles[h].savePoint
                  /\ handles'[h].tx = x
                  /\ handles'[h].savePointMtx = 0
                  /\ txs'[x].status \in {txs[x].status, "done"}
                  /\ Depth(t) > 0 => txs'[x].status = txs[x].status
                  /\ HandleIn(ret'[t].arg, ret'[t].s) = h
                  /\ LastStmt(t).n = handles'[h].savePoint
         /\ EndExecStep(t) /\ cur[t].op = "Rollback"
              /\ Of(handles[cur[t].h].tx, cur[t].h) # {}
              /\ OwnStmt(t).kind \in EndKinds /\ ~OwnStmt(t).ok =>
              /\ LastStmt(t).n = OwnStmt(t).n
              /\ LastStmt(t).sql = IF OwnStmt(t).n > 0 THEN RollbackToSQL(OwnStmt(t).n)
                                   ELSE "ROLLBACK"]_vars

\* C18 witness: RELEASE SAVEPOINT SP1 failed in a Commit, savePoint is still
\* 1, and the Rollback that followed with the same context rolled back to SP1
C18_Witness ==
    \E t, u \in Threads, x \in TxIds :
      /\ Sqls(x) = <<"BEGIN", "SAVEPOINT SP1", "RELEASE SAVEPOINT SP1",
                     "ROLLBACK TO SAVEPOINT SP1">>
      /\ ~Log(x)[3].ok /\ Log(x)[4].ok
      /\ OneHandle(x)
      /\ pc[t] = "end_dec" /\ cur[t].op = "Rollback"
      /\ handles[cur[t].h].savePoint = 1
      /\ ret[u].op = "Commit" /\ ret[u].err = DriverErr(ReleaseSQL(1))
      /\ ret[u].arg = cur[t].ctx

\* the SAVEPOINT statements of Handle h that created a savepoint which no
\* later RELEASE SAVEPOINT / ROLLBACK TO SAVEPOINT of h has ended
OpenAt(x, h) ==
    {i \in Savepoints(x, h) :
        /\ Log(x)[i].ok
        /\ ~\E j \in SavepointEnds(x, h) : i < j /\ Log(x)[j].n = Log(x)[i].n}
OpenSavepoints(x, h) == {Log(x)[i].sql : i \in OpenAt(x, h)}

\* a call holds the mutex of h between its counter update and its statement
\* (StartTransaction) or between its statement and its counter update
\* (Commit, Rollback)
Halfway(h) ==
    \E t \in Threads : cur[t].h = h /\ pc[t] \in {"start_exec", "end_dec"}

\* C19: while no driver call has failed, the savepoints of a Handle that were
\* created and not yet released or rolled back to are exactly SP1 ..
\* SP<savePoint> (with the counter one ahead inside a call that holds the
\* mutex), and every RELEASE SAVEPOINT / ROLLBACK TO SAVEPOINT names an
\* existing savepoint: the one opened last among those still open.
C19_OpenSavepoints ==
    /\ [](\A h \in HandleIds :
            LET x == handles[h].tx IN
            AllOk(x) /\ nfails = 0 =>
               OpenSavepoints(x, h) =
                  {SavepointSQL(n) :
                     n \in 1..(handles[h].savePoint - (IF Halfway(h) THEN 1 ELSE 0))})
    /\ [][\A t \in Threads :
            EndExecStep(t) /\ Depth(t) > 0 /\ AllOk(handles[cur[t].h].tx) /\ DriverOk(t) =>
               LET h == cur[t].h
                   x == handles[h].tx
               IN  /\ OpenAt(x, h) # {}
                   /\ \E i \in OpenAt(x, h) :
                         /\ \A j \in OpenAt(x, h) : j <= i
                         /\ Log(x)[i].n = LastStmt(t).n
                         /\ LastStmt(t).sql \in {ReleaseSQL(Log(x)[i].n),
                                                 RollbackToSQL(Log(x)[i].n)}]_vars

\* C19 witness: SP1 and SP2 were opened through one Handle and SP2 was
\* released; SP1 is the open savepoint and savePoint is 1
C19_Witness ==
    \E x \in TxIds :
      /\ Sqls(x) = <<"BEGIN", "SAVEPOINT SP1", "SAVEPOINT SP2", "RELEASE SAVEPOINT SP2">>
      /\ AllOk(x) /\ OneHandle(x) /\ nfails = 0
      /\ handles[Log(x)[1].h].savePoint = 1
      /\ MutexFree(Log(x)[1].h)
      /\ OpenSavepoints(x, Log(x)[1].h) = {"SAVEPOINT SP1"}

\* C20: when DoInTransaction is called on a context that has a Handle and f
\* returns an error, its Rollback issues ROLLBACK TO SAVEPOINT for the
\* savepoint its StartTransaction opened, and neither the real ROLLBACK nor
\* COMMIT; when DoInTransaction returns, the Handle is still in the context,
\* its transaction is open and savePoint is back at its value before the
\* call.
C20_NestedFails ==
    [][\A t \in Threads :
         /\ EndExecStep(t) /\ Stage(t) = "rollback_fn" /\ Nested(Top(t)) =>
              /\ LastStmt(t).sql = RollbackToSQL(Top(t).sp)
              /\ LastStmt(t).h = HandleIn(Top(t).ctx0, Top(t).s)
         /\ Stage(t) = "rollback_fn" /\ Nested(Top(t)) /\ Returns(t) =>
              LET h == HandleIn(Top(t).ctx0, Top(t).s)
                  x == handles[h].tx
              IN  /\ rret'[t].err = Top(t).err
                  /\ handles'[h].savePoint = Top(t).sp - 1
                  /\ handles'[h].tx = x
                  /\ txs'[x].status = "open"
                  /\ \A i \in 1..Len(txs'[x].log) :
                        txs'[x].log[i].kind \notin {"COMMIT", "ROLLBACK"}]_vars

====
